---- MODULE Spec2Model ----
(***************************************************************************)
(* A model of log-search-mcp: the configuration manager                    *)
(* (config/manager.py), the search orchestrator (tools/log_search.py),     *)
(* the protocol handlers and startup (server.py) and the SSH connection    *)
(* manager (utils/ssh_manager.py).                                         *)
(*                                                                         *)
(* Python values are modelled as follows.                                  *)
(*   Optional[T]   None is << >>, a present value v is <<v>>               *)
(*   str           a sequence of string tokens; an f-string is the         *)
(*                 concatenation of its literal parts and its arguments    *)
(*   a call        [kind |-> "return", value |-> v] or                     *)
(*                 [kind |-> "raise", exc |-> [type |-> t, msg |-> str]]   *)
(*   dict          a sequence of entries in insertion order                *)
(***************************************************************************)
EXTENDS Integers, Sequences, FiniteSets, TLC

VARIABLES
    \* ---- configuration manager and server (config/manager.py, server.py)
    file,         \* the persisted configuration at config_path
    config,       \* ConfigManager._config
    phase,        \* position of server.main
    req,          \* the tool call being handled
    tasks,        \* the per-host coroutines handed to asyncio.gather
    completed,    \* indices of tasks in the order they settled
    resp,         \* what the last call_tool gave the protocol layer
    closeall,     \* the close_all that main runs when it exits
    now,          \* the wall clock datetime.now() reads, in seconds
    \* ---- SSH connection manager (utils/ssh_manager.py)
    connections,  \* SSHConnectionManager._connections: host name -> session
    sess,         \* the sessions asyncssh has created, by identity
    caller,       \* the coroutines calling into the connection manager
    last          \* the last call of the connection manager that ended

vars ==
    <<file, config, phase, req, tasks, completed, resp, closeall, now,
      connections, sess, caller, last>>
searchVars == <<file, config, phase, req, tasks, completed, resp, closeall, now>>
sshVars == <<connections, sess, caller, last>>

----------------------------------------------------------------------------
(* Bounds of the model *)

\* the host names that configurations and requests draw from
Hosts == {"web", "db", "cache"}
\* the longest remote output, in lines, the environment produces
MaxLines == 2
\* the largest max_results argument a request carries
MaxCap == 2
\* the number of sessions the transport creates in one behaviour
MaxSessions == 2
\* the most servers a persisted configuration holds at startup
MaxServers == 2
\* the file_age_limit a persisted server entry may carry, in days
FileAgeDays == 7

----------------------------------------------------------------------------
(* Python values *)

None == << >>
Some(v) == <<v>>
IsNone(o) == o = << >>
\* x or y, for Optional[int]: None and 0 are falsy
OrElse(o, d) == IF o = << >> \/ o = <<0>> THEN d ELSE o[1]
\* dict.get(key, d): d only when the key is absent
GetOr(o, d) == IF o = << >> THEN d ELSE o[1]

Return(v) == [kind |-> "return", value |-> v]
Raise(t, m) == [kind |-> "raise", exc |-> [type |-> t, msg |-> m]]
Returned(o) == o.kind = "return"
Raised(o) == o.kind = "raise"

Range(s) == {s[i] : i \in 1..Len(s)}
Min(a, b) == IF a <= b THEN a ELSE b

RECURSIVE Flatten(_)
\* the concatenation of a sequence of sequences
Flatten(ss) == IF ss = << >> THEN << >> ELSE Head(ss) \o Flatten(Tail(ss))

\* the sequences over S without repetition
RECURSIVE Orders(_)
Orders(S) ==
    IF S = {} THEN {<< >>}
    ELSE UNION {{<<x>> \o o : o \in Orders(S \ {x})} : x \in S}
AllOrders(S) == UNION {Orders(T) : T \in SUBSET S}

----------------------------------------------------------------------------
(* models/config.py *)

\* the fields class ServerConfig declares
ServerConfigFields ==
    {"name", "hostname", "port", "username", "private_key_path", "password",
     "app_name", "log_paths", "timeout"}
\* the fields declared with Field(...): no default, required at construction
ServerConfigRequired == {"name", "hostname", "username", "app_name"}
ServerConfigOptional == {"private_key_path", "password", "log_paths"}
DefaultPort == 22
DefaultSSHTimeout == 30
DefaultTimeout == 30
DefaultMaxResults == 100

FieldDefault(f) ==
    CASE f = "port" -> DefaultPort
      [] f = "timeout" -> DefaultSSHTimeout
      [] OTHER -> None

\* ServerConfig(name=name, **data): the declared fields are kept, a missing one
\* takes its default, and a key the class does not declare is ignored
\* (pydantic's default for extra keys).
ServerConfigNew(name, data) ==
    IF ServerConfigRequired \ {"name"} \subseteq DOMAIN data
    THEN Return([f \in ServerConfigFields |->
                    IF f = "name" THEN name
                    ELSE IF f \in DOMAIN data THEN data[f]
                    ELSE FieldDefault(f)])
    ELSE Raise("ValidationError", <<"Field required">>)

\* obj.f on a model instance: an undeclared attribute raises AttributeError
GetAttr(obj, f) ==
    IF f \in DOMAIN obj
    THEN Return(obj[f])
    ELSE Raise("AttributeError",
               <<"'ServerConfig' object has no attribute '", f, "'">>)

\* LogSearchConfig(): servers is a dict, kept here in insertion order
LogSearchConfig(servers, default_timeout, max_results) ==
    [servers |-> servers, default_timeout |-> default_timeout,
     max_results |-> max_results]
DefaultConfig == LogSearchConfig(<< >>, DefaultTimeout, DefaultMaxResults)

\* the position of a key in a dict, 0 when absent
IndexOf(servers, name) ==
    IF \E i \in 1..Len(servers) : servers[i].name = name
    THEN CHOOSE i \in 1..Len(servers) : servers[i].name = name
    ELSE 0
Keys(servers) == [i \in 1..Len(servers) |-> servers[i].name]

----------------------------------------------------------------------------
(* config/manager.py *)

\* a dump that leaves the log-path list out
DumpServerNoPaths(sc) ==
    LET keep == {f \in ServerConfigFields \ {"name", "log_paths"} :
                    f \in ServerConfigOptional => ~IsNone(sc[f])}
    IN  [name |-> sc.name, data |-> [f \in keep |-> sc[f]]]

\* server_config.model_dump(exclude={"name"}) written by toml.dump, which
\* leaves out the keys whose value is None
DumpServer(sc) ==
    LET keep == {f \in ServerConfigFields \ {"name"} :
                    f \in ServerConfigOptional => ~IsNone(sc[f])}
    IN  [name |-> sc.name, data |-> [f \in keep |-> sc[f]]]

\* save_config: the file as written from the current configuration
SaveConfig(c, f) ==
    IF IsNone(c)
    THEN [out |-> Raise("ValueError", <<"No configuration loaded">>), file |-> f]
    ELSE [out |-> Return(None),
          file |-> [kind |-> "valid",
                    default_timeout |-> <<c[1].default_timeout>>,
                    max_results |-> <<c[1].max_results>>,
                    servers |-> [i \in 1..Len(c[1].servers) |->
                                    DumpServer(c[1].servers[i])]]]

\* load_config when the file exists: it is parsed, and any failure becomes
\* ValueError with the manager left as it was
LoadExisting(c, f) ==
    IF f.kind = "malformed"
    THEN [out |-> Raise("ValueError", <<"Invalid configuration file: ", "parse error">>),
          config |-> c, file |-> f]
    ELSE LET made == [i \in 1..Len(f.servers) |->
                        ServerConfigNew(f.servers[i].name, f.servers[i].data)]
         IN  IF \E i \in 1..Len(made) : Raised(made[i])
             THEN [out |-> Raise("ValueError",
                                 <<"Invalid configuration file: ", "Field required">>),
                   config |-> c, file |-> f]
             ELSE LET new == LogSearchConfig(
                                 [i \in 1..Len(made) |-> made[i].value],
                                 GetOr(f.default_timeout, DefaultTimeout),
                                 GetOr(f.max_results, DefaultMaxResults))
                  IN  [out |-> Return(new), config |-> Some(new), file |-> f]

\* a load that makes the default configuration current but does not save it
LoadConfigNoSave(c, f) ==
    IF f.kind = "absent"
    THEN [out |-> Return(DefaultConfig), config |-> Some(DefaultConfig), file |-> f]
    ELSE LoadExisting(c, f)

\* load_config: the outcome, and the configuration and file afterwards
LoadConfig(c, f) ==
    IF f.kind = "absent"
    THEN [out |-> Return(DefaultConfig), config |-> Some(DefaultConfig),
          file |-> SaveConfig(Some(DefaultConfig), f).file]
    ELSE LoadExisting(c, f)

\* get_config: loads when nothing is loaded yet
GetConfig(c, f) ==
    IF IsNone(c)
    THEN LoadConfig(c, f)
    ELSE [out |-> Return(c[1]), config |-> c, file |-> f]

\* alphabetical rank of a host name
Rank(h) == CASE h = "cache" -> 1 [] h = "db" -> 2 [] OTHER -> 3
SortedNames(names) ==
    [i \in 1..Len(names) |->
        CHOOSE n \in Range(names) :
            Cardinality({m \in Range(names) : Rank(m) < Rank(n)}) = i - 1]
\* a list_servers that sorts the names
ListServersSorted(c, f) ==
    LET g == GetConfig(c, f)
    IN  IF Raised(g.out) THEN g
        ELSE [g EXCEPT !.out = Return(SortedNames(Keys(g.out.value.servers)))]

\* list_servers
ListServers(c, f) ==
    LET g == GetConfig(c, f)
    IN  IF Raised(g.out) THEN g
        ELSE [g EXCEPT !.out = Return(Keys(g.out.value.servers))]

\* get_server
GetServer(c, f, server_name) ==
    LET g == GetConfig(c, f)
    IN  IF Raised(g.out) THEN g
        ELSE IF IndexOf(g.out.value.servers, server_name) = 0
        THEN [g EXCEPT !.out = Raise("ValueError",
                                     <<"Server '", server_name, "' not found">>)]
        ELSE [g EXCEPT !.out =
                Return(g.out.value.servers[IndexOf(g.out.value.servers, server_name)])]


----------------------------------------------------------------------------
(* The remote side, as the orchestrator sees it *)

LineTexts == <<"l1", "l2", "l3", "l4", "l5">>
Lines(k) == [i \in 1..k |-> LineTexts[i]]

\* what a host does with a command: it prints lines, the connection cannot
\* be made, the command times out, or the command fails
RemoteOutcomes ==
    {[kind |-> "ok", stdout |-> Lines(k)] : k \in 0..MaxLines}
    \cup {[kind |-> k, stdout |-> << >>] :
            k \in {"connect_failure", "timeout", "command_failure"}}
NoRemote == [kind |-> "unset", stdout |-> << >>]

\* execute_command as its caller sees it: stdout, or the exception raised
ExecuteCommandResult(server_config, env) ==
    CASE env.kind = "ok" -> Return(env.stdout)
      [] env.kind = "connect_failure" ->
            Raise("ConnectionError",
                  <<"Failed to connect to ", server_config.name, ": ", "refused">>)
      [] env.kind = "timeout" ->
            Raise("TimeoutError",
                  <<"Command execution timed out on ", server_config.name>>)
      [] OTHER ->
            Raise("RuntimeError",
                  <<"Command failed on ", server_config.name, ": ", "exit status">>)

----------------------------------------------------------------------------
(* tools/log_search.py *)

\* the lines of result.strip().split('\n') that are not blank
NonBlank(stdout) == SelectSeq(stdout, LAMBDA l : l # "")

DefaultLogFiles(app) ==
    << <<"/opt/logs/", app, "/", app, ".log">>,
       <<"/opt/logs/", app, "/", app, ".bee.log">> >>

\* _filter_log_files_by_age: one find per path spec; any failure falls back
\* to the specs as given
FilterLogFilesByAge(server_config, log_files, file_age_limit, env) ==
    IF file_age_limit = None \/ file_age_limit = <<0>>
    THEN log_files
    ELSE IF Raised(ExecuteCommandResult(server_config, env))
    THEN log_files
    ELSE Flatten([i \in 1..Len(log_files) |->
                    [j \in 1..Len(NonBlank(env.stdout)) |->
                        <<NonBlank(env.stdout)[j]>>]])

NoFilesLine(server_name) ==
    <<"No log files found matching the age filter on ", server_name>>
NoResultsLine(pattern, server_name) ==
    <<"No results found for pattern '", pattern, "' on ", server_name>>
ResultLine(server_name, line) == <<"[", server_name, "] ", line>>
ErrorLine(server_name, exc) ==
    <<"Error searching logs on ", server_name, ": ">> \o exc.msg
Pattern == "ERROR"

\* server_config.log_paths if set, else the two default paths
LogFilesOf(server_config) ==
    IF ~IsNone(server_config.log_paths) /\ server_config.log_paths[1] # << >>
    THEN server_config.log_paths[1]
    ELSE DefaultLogFiles(server_config.app_name)

\* the prefixed lines, cut to the cap: formatted_results[:max_results]
FormatResults(server_name, lines, cap) ==
    SubSeq([i \in 1..Len(lines) |-> ResultLine(server_name, lines[i])],
           1, Min(cap, Len(lines)))

\* search_logs from the answer of execute_command on
SearchLogsOutput(server_name, run, cap) ==
    IF Raised(run) THEN run
    ELSE IF NonBlank(run.value) = << >>
    THEN Return(<<NoResultsLine(Pattern, server_name)>>)
    ELSE Return(FormatResults(server_name, NonBlank(run.value), cap))

\* search_logs from the filtered file list on
SearchLogsFiltered(server_name, server_config, filtered, cap, env) ==
    IF filtered = << >>
    THEN Return(<<NoFilesLine(server_name)>>)
    ELSE SearchLogsOutput(server_name, ExecuteCommandResult(server_config, env), cap)

\* search_logs from the read of server_config.file_age_limit on
SearchLogsAged(server_name, server_config, age, cap, env) ==
    IF Raised(age) THEN age
    ELSE SearchLogsFiltered(server_name, server_config,
            FilterLogFilesByAge(server_config, LogFilesOf(server_config), age.value, env),
            cap, env)

\* search_logs once the server and the configuration are at hand
SearchLogsConfigured(server_name, server_config, cfg, max_results, env) ==
    SearchLogsAged(server_name, server_config,
                   GetAttr(server_config, "file_age_limit"),
                   OrElse(max_results, cfg.max_results), env)

SearchLogsResolved(gs, server_name, max_results, env) ==
    IF Raised(gs.out) THEN gs
    ELSE [gs EXCEPT !.out =
            SearchLogsConfigured(server_name, gs.out.value,
                                 GetConfig(gs.config, gs.file).out.value,
                                 max_results, env)]

\* the body of search_logs' try block
SearchLogsTry(c, f, server_name, max_results, env) ==
    SearchLogsResolved(GetServer(c, f, server_name), server_name, max_results, env)

\* search_logs without its except clause: the exception leaves the coroutine
SearchLogsNoExcept(t, server_name) == t

\* an except clause that logs the error and returns no line
SearchLogsExceptSilent(t, server_name) ==
    IF Raised(t.out) THEN [t EXCEPT !.out = Return(<< >>)] ELSE t

\* except Exception as e: one error line
SearchLogsExcept(t, server_name) ==
    IF Raised(t.out)
    THEN [t EXCEPT !.out = Return(<<ErrorLine(server_name, t.out.exc)>>)]
    ELSE t

\* search_logs: every exception of the body becomes one error line
SearchLogs(c, f, server_name, max_results, env) ==
    SearchLogsExcept(SearchLogsTry(c, f, server_name, max_results, env), server_name)

NoServersLine == <<"No servers configured">>

\* a merge that assigns where the code extends: the last host's lines only
MergeResultsAssign(server_names, results) ==
    IF Raised(results[Len(results)])
    THEN << <<"[", server_names[Len(results)], "] Error: ">>
            \o results[Len(results)].exc.msg >>
    ELSE results[Len(results)].value

\* the merge loop of search_all_logs over what gather returned
MergeResults(server_names, results) ==
    Flatten([i \in 1..Len(results) |->
                IF Raised(results[i])
                THEN << <<"[", server_names[i], "] Error: ">> \o results[i].exc.msg >>
                ELSE results[i].value])

----------------------------------------------------------------------------
(* tools/log_search.py: the command a search sends to a host *)

\* A string is the sequence of its pieces. A character the code looks at on
\* its own (a digit, a unit letter, a blank) is a piece; so is the separator
\* of an absolute range, a whole ISO date, and a word that is neither.
DigitValue == [d \in {"1", "2"} |-> IF d = "1" THEN 1 ELSE 2]
IsoDates == {"2024-01-01", "2024-01-02"}
\* the instant an ISO date names, in seconds on the clock's scale
IsoValue(d) == IF d = "2024-01-01" THEN -172800 ELSE -86400

\* str.lower()
LowerStr(s) ==
    [i \in 1..Len(s) |->
        CASE s[i] = "H" -> "h"
          [] s[i] = "M" -> "m"
          [] s[i] = "D" -> "d"
          [] s[i] = " TO " -> " to "
          [] OTHER -> s[i]]

RECURSIVE LStrip(_)
LStrip(s) == IF s # << >> /\ Head(s) = " " THEN LStrip(Tail(s)) ELSE s
RECURSIVE RStrip(_)
RStrip(s) ==
    IF s # << >> /\ s[Len(s)] = " " THEN RStrip(SubSeq(s, 1, Len(s) - 1)) ELSE s
\* str.strip()
Strip(s) == LStrip(RStrip(s))

\* str.endswith(ch), and s[:-1]
EndsWith(s, ch) == s # << >> /\ s[Len(s)] = ch
ButLast(s) == SubSeq(s, 1, Len(s) - 1)

\* int(text)
IntOf(text) ==
    IF Len(Strip(text)) = 1 /\ Strip(text)[1] \in DOMAIN DigitValue
    THEN Return(DigitValue[Strip(text)[1]])
    ELSE Raise("ValueError", <<"invalid literal for int() with base 10: ">> \o text)

\* datetime.fromisoformat(text)
FromIsoFormat(text) ==
    IF Len(text) = 1 /\ text[1] \in IsoDates
    THEN Return(IsoValue(text[1]))
    ELSE Raise("ValueError", <<"Invalid isoformat string: ">> \o text)

\* ' to ' in s, and s.split(' to ', 1)
HasTo(s) == \E i \in 1..Len(s) : s[i] = " to "
FirstTo(s) == CHOOSE i \in 1..Len(s) : s[i] = " to " /\ \A j \in 1..(i - 1) : s[j] # " to "
BeforeTo(s) == SubSeq(s, 1, FirstTo(s) - 1)
AfterTo(s) == SubSeq(s, FirstTo(s) + 1, Len(s))

SecondsPerHour == 3600
SecondsPerMinute == 60
SecondsPerDay == 86400

\* the awk stage that keeps the lines stamped at or after the cutoff
SinceFilter(cutoff) == [kind |-> "since", from |-> cutoff, to |-> cutoff]
\* the awk stage that keeps the lines stamped within the two instants
BetweenFilter(start, end) == [kind |-> "between", from |-> start, to |-> end]

\* a relative range: int(time_range[:-1]) units before datetime.now()
RelativeFilter(text, unit, clock) ==
    IF Raised(IntOf(ButLast(text))) THEN IntOf(ButLast(text))
    ELSE Return(Some(SinceFilter(clock - IntOf(ButLast(text)).value * unit)))

\* an absolute range: a ValueError of fromisoformat gives no filter
AbsoluteFilter(text) ==
    IF \/ Raised(FromIsoFormat(Strip(BeforeTo(text))))
       \/ Raised(FromIsoFormat(Strip(AfterTo(text))))
    THEN Return(None)
    ELSE Return(Some(BetweenFilter(FromIsoFormat(Strip(BeforeTo(text))).value,
                                   FromIsoFormat(Strip(AfterTo(text))).value)))

\* _parse_time_range on the lowered, stripped text; clock is datetime.now()
ParseLowered(text, clock) ==
    CASE EndsWith(text, "h") -> RelativeFilter(text, SecondsPerHour, clock)
      [] EndsWith(text, "m") -> RelativeFilter(text, SecondsPerMinute, clock)
      [] EndsWith(text, "d") -> RelativeFilter(text, SecondsPerDay, clock)
      [] HasTo(text) -> AbsoluteFilter(text)
      [] OTHER -> Return(None)

\* _parse_time_range(time_range)
ParseTimeRange(time_range, clock) == ParseLowered(Strip(LowerStr(time_range)), clock)

\* the stages of the pipeline a command is
Stage(name, arg) == [stage |-> name, arg |-> arg]
GrepStage(pattern, log_files) == Stage("grep", [pattern |-> pattern, files |-> log_files])

\* the time filter of _build_grep_command: none for no range, for an empty
\* one, and for one _parse_time_range gives no filter for
TimeFilterOf(time_range, clock) ==
    IF time_range = None \/ time_range[1] = << >> THEN Return(None)
    ELSE ParseTimeRange(time_range[1], clock)

\* the command once the time filter is known
CommandWith(pattern, log_files, time_filter, max_results) ==
    <<GrepStage(pattern, log_files)>>
    \o (IF time_filter # None THEN <<Stage("awk", time_filter[1])>> ELSE << >>)
    \o (IF max_results # None /\ max_results[1] # 0
        THEN <<Stage("head", max_results[1])>> ELSE << >>)

\* _build_grep_command(pattern, log_files, time_range, max_results)
BuildGrepCommand(pattern, log_files, time_range, max_results, clock) ==
    IF Raised(TimeFilterOf(time_range, clock)) THEN TimeFilterOf(time_range, clock)
    ELSE Return(CommandWith(pattern, log_files,
                            TimeFilterOf(time_range, clock).value, max_results))

----------------------------------------------------------------------------
(* server.py *)

\* str.lower() on the server names a request carries
Lower(s) == IF s \in {"ALL", "All"} THEN "all" ELSE s

RECURSIVE JoinLines(_)
\* "\n".join(results)
JoinLines(ls) ==
    IF ls = << >> THEN << >>
    ELSE IF Len(ls) = 1 THEN ls[1]
    ELSE ls[1] \o <<"\n">> \o JoinLines(Tail(ls))

\* the CallToolResult built from a result list
ToolResult(results) ==
    Return([results |-> results,
            text |-> IF results # << >> THEN JoinLines(results)
                     ELSE <<"No results found">>])


----------------------------------------------------------------------------
(* The states a run starts from *)

\* a server table of the persisted file; the web host authenticates with a
\* key, the db host with a password, and the cache host names neither
ProfileKeys(h, age) ==
    {"hostname", "username", "app_name"}
    \cup (IF h = "web" THEN {"private_key_path"} ELSE {})
    \cup (IF h = "db" THEN {"password"} ELSE {})
    \cup (IF age # None THEN {"file_age_limit"} ELSE {})
ProfileData(h, age) ==
    [f \in ProfileKeys(h, age) |->
        CASE f = "hostname" -> h
          [] f = "username" -> "ops"
          [] f = "app_name" -> "app"
          [] f = "private_key_path" -> Some("id_rsa")
          [] f = "password" -> Some("secret")
          [] OTHER -> age]

ValidFile(names, age, max_results) ==
    [kind |-> "valid", default_timeout |-> Some(DefaultTimeout),
     max_results |-> Some(max_results),
     servers |-> [i \in 1..Len(names) |->
                    [name |-> names[i], data |-> ProfileData(names[i], age)]]]

InitialFiles ==
    {[kind |-> "absent"], [kind |-> "malformed"]}
    \cup {ValidFile(names, age, MaxLines) :
            names \in {o \in AllOrders(Hosts) : Len(o) <= MaxServers},
            age \in {None, Some(FileAgeDays)}}

IdleReq ==
    [state |-> "idle", kind |-> "none", server_name |-> "none",
     max_results |-> None, server_names |-> << >>]
NoResp == [kind |-> "none"]

\* the coroutines that call into the connection manager
Callers == {"A", "B"}
NoSession == [state |-> "unused", host |-> "none"]
IdleCaller == [pc |-> "idle", op |-> "none", host |-> "none", conn |-> 0]
NoEvent ==
    [op |-> "none", host |-> "none", ret |-> "none", conn |-> 0, via |-> "none"]

\* main has not reached its finally clause
NoCloseAll ==
    [pc |-> "none", keys |-> << >>, table |-> {}, attempted |-> {},
     calls |-> 0, exit |-> "none"]

\* SSHConnectionManager.__init__: no connection
SSHInit ==
    /\ connections = [h \in Hosts |-> 0]
    /\ sess = [s \in 1..MaxSessions |-> NoSession]
    /\ caller = [c \in Callers |-> IdleCaller]
    /\ last = NoEvent

Init ==
    /\ file \in InitialFiles
    /\ config = None
    /\ phase = "start"
    /\ req = IdleReq
    /\ tasks = << >>
    /\ completed = << >>
    /\ resp = NoResp
    /\ closeall = NoCloseAll
    /\ now = 0
    /\ SSHInit

----------------------------------------------------------------------------
(* server.py: startup and the search_logs tool *)

\* main: load_config at startup; a failure is logged and the server starts
MainLoadConfig ==
    /\ phase = "start"
    /\ LET l == LoadConfig(config, file)
       IN  /\ config' = l.config
           /\ file' = l.file
    /\ phase' = "serving"
    /\ UNCHANGED <<req, tasks, completed, resp, sshVars, closeall, now>>

ServerNames == Hosts \cup {"ghost", "all", "ALL"}
Caps == {None} \cup {Some(n) : n \in 0..MaxCap}

\* call_tool with a name other than search_logs
CallToolUnknown ==
    /\ phase = "serving"
    /\ req.state = "idle"
    /\ req' = [IdleReq EXCEPT !.state = "done", !.kind = "unknown"]
    /\ resp' = Raise("ValueError", <<"Unknown tool: ", "other">>)
    /\ tasks' = << >>
    /\ completed' = << >>
    /\ UNCHANGED <<file, config, phase, sshVars, closeall, now>>

\* call_tool("search_logs") for one server: search_logs to its end
CallToolOne(server_name, max_results, env) ==
    /\ phase = "serving"
    /\ req.state = "idle"
    /\ Lower(server_name) # "all"
    /\ LET r == SearchLogs(config, file, server_name, max_results, env)
       IN  /\ config' = r.config
           /\ file' = r.file
           /\ tasks' = <<[host |-> server_name, state |-> "done",
                          env |-> env, out |-> r.out]>>
           /\ resp' = IF Raised(r.out) THEN r.out ELSE ToolResult(r.out.value)
    /\ completed' = <<1>>
    /\ req' = [IdleReq EXCEPT !.state = "done", !.kind = "one",
                              !.server_name = server_name,
                              !.max_results = max_results]
    /\ UNCHANGED <<phase, sshVars, closeall, now>>

\* search_all_logs without the test for an empty list of names
SearchAllStartNoTest(c, f) ==
    LET ls == ListServers(c, f)
    IN  IF Raised(ls.out) THEN [ls EXCEPT !.out = ls.out] @@ [names |-> << >>]
        ELSE [ls EXCEPT !.out = Return(<< >>)] @@ [names |-> ls.out.value]

\* search_all_logs up to asyncio.gather: the names are listed, and one
\* search_logs coroutine is made per name
SearchAllStart(c, f) ==
    LET ls == ListServers(c, f)
    IN  IF Raised(ls.out) THEN [ls EXCEPT !.out = ls.out] @@ [names |-> << >>]
        ELSE IF ls.out.value = << >>
        THEN [ls EXCEPT !.out = Return(<<NoServersLine>>)] @@ [names |-> << >>]
        ELSE [ls EXCEPT !.out = Return(<< >>)] @@ [names |-> ls.out.value]

\* call_tool("search_logs") with server_name "all"
CallToolAll(server_name, max_results) ==
    /\ phase = "serving"
    /\ req.state = "idle"
    /\ Lower(server_name) = "all"
    /\ LET s == SearchAllStart(config, file)
       IN  /\ config' = s.config
           /\ file' = s.file
           /\ tasks' = [i \in 1..Len(s.names) |->
                          [host |-> s.names[i], state |-> "pending",
                           env |-> NoRemote, out |-> Return(<< >>)]]
           /\ resp' = IF s.names # << >> THEN NoResp
                      ELSE IF Raised(s.out) THEN s.out
                      ELSE ToolResult(s.out.value)
           /\ req' = [IdleReq EXCEPT
                        !.state = IF s.names # << >> THEN "gathering" ELSE "done",
                        !.kind = "all", !.server_name = server_name,
                        !.max_results = max_results,
                        !.server_names = s.names]
    /\ completed' = << >>
    /\ UNCHANGED <<phase, sshVars, closeall, now>>

\* one coroutine of the gather runs search_logs to its end
SearchLogsTask(i, env) ==
    /\ req.state = "gathering"
    /\ i \in 1..Len(tasks)
    /\ tasks[i].state = "pending"
    /\ LET r == SearchLogs(config, file, tasks[i].host, req.max_results, env)
       IN  /\ config' = r.config
           /\ file' = r.file
           /\ tasks' = [tasks EXCEPT ![i] = [host |-> tasks[i].host, state |-> "done",
                                             env |-> env, out |-> r.out]]
    /\ completed' = Append(completed, i)
    /\ UNCHANGED <<phase, req, resp, sshVars, closeall, now>>

\* gather returns once every coroutine has settled; search_all_logs merges
\* and call_tool answers
GatherJoin ==
    /\ req.state = "gathering"
    /\ \A i \in 1..Len(tasks) : tasks[i].state = "done"
    /\ resp' = ToolResult(MergeResults(req.server_names,
                                       [i \in 1..Len(tasks) |-> tasks[i].out]))
    /\ req' = [req EXCEPT !.state = "done"]
    /\ UNCHANGED <<file, config, phase, tasks, completed, sshVars, closeall, now>>

\* the protocol layer has taken the answer; the next request may come
Respond ==
    /\ req.state = "done"
    /\ req' = IdleReq
    /\ tasks' = << >>
    /\ completed' = << >>
    /\ resp' = NoResp
    /\ UNCHANGED <<file, config, phase, sshVars, closeall, now>>

Next ==
    \/ MainLoadConfig
    \/ Respond
    \/ CallToolUnknown
    \/ \E n \in ServerNames, m \in Caps, env \in RemoteOutcomes : CallToolOne(n, m, env)
    \/ \E n \in ServerNames, m \in Caps : CallToolAll(n, m)
    \/ \E i \in 1..MaxServers + 1, env \in RemoteOutcomes : SearchLogsTask(i, env)
    \/ GatherJoin

Spec == Init /\ [][Next]_vars

\* the event loop runs every coroutine that can run: a pending search_logs
\* task is eventually run to its end, and a gather whose tasks have all
\* settled resumes
FairSpec ==
    /\ Spec
    /\ \A i \in 1..MaxServers + 1 :
         WF_vars(\E env \in RemoteOutcomes : SearchLogsTask(i, env))
    /\ WF_vars(GatherJoin)


----------------------------------------------------------------------------
(* utils/ssh_manager.py *)
(* A session is "live" (is_closing() is False), "closing" (is_closing() is *)
(* True: closed from either end) or "broken" (is_closing() raises).        *)
(* Each action runs a coroutine from one suspension point to the next.     *)

\* the profile a caller passes for host h
ServerOf(h) == ServerConfigNew(h, ProfileData(h, None)).value

\* a reuse test that returns whatever session is stored
ConnectReusesStored(conns, ss, h) == conns[h] # 0

\* connect, lines 25-30: the stored session is returned when it is not closing
ConnectReuses(conns, ss, h) == conns[h] # 0 /\ ss[conns[h]].state = "live"
\* connect, lines 31-33: is_closing() raised, the record is deleted
ConnectDrops(conns, ss, h) == conns[h] # 0 /\ ss[conns[h]].state = "broken"
\* connect, lines 44-49: one of the two credentials is set
HasCredential(sc) == ~IsNone(sc.private_key_path) \/ ~IsNone(sc.password)

FreeSession == CHOOSE s \in 1..MaxSessions :
    /\ sess[s].state = "unused"
    /\ \A t \in 1..MaxSessions : sess[t].state = "unused" => s <= t

\* the record of a call that returned or raised
Event(op, h, ret, conn, via) ==
    [op |-> op, host |-> h, ret |-> ret, conn |-> conn, via |-> via]
InFlight(pc, op, h, conn) == [pc |-> pc, op |-> op, host |-> h, conn |-> conn]

\* connect(server_config), alone or as the first line of execute_command, up
\* to its return, its raise or the await of asyncssh.connect
ConnectCall(c, h, op) ==
    /\ caller[c].pc = "idle"
    /\ IF ConnectReuses(connections, sess, h)
       THEN /\ connections' = connections
            /\ IF op = "execute"
               THEN /\ caller' = [caller EXCEPT ![c] =
                                    InFlight("running", op, h, connections[h])]
                    /\ last' = last
               ELSE /\ caller' = caller
                    /\ last' = Event(op, h, "ok", connections[h], "reused")
       ELSE /\ connections' = IF ConnectDrops(connections, sess, h)
                              THEN [connections EXCEPT ![h] = 0]
                              ELSE connections
            /\ IF HasCredential(ServerOf(h))
               THEN /\ caller' = [caller EXCEPT ![c] = InFlight("connecting", op, h, 0)]
                    /\ last' = last
               ELSE /\ caller' = caller
                    /\ last' = Event(op, h, "ValueError", 0, "no_credential")
    /\ UNCHANGED <<sess, searchVars>>

ConnectOutcomes == {"ok", "ssh_error", "os_error"}

\* asyncssh.connect completes: the new session is stored and returned, an
\* asyncssh.Error becomes ConnectionError, any other exception passes through
ConnectDone(c, outcome) ==
    /\ caller[c].pc = "connecting"
    /\ outcome = "ok" => \E s \in 1..MaxSessions : sess[s].state = "unused"
    /\ IF outcome = "ok"
       THEN /\ sess' = [sess EXCEPT ![FreeSession] =
                            [state |-> "live", host |-> caller[c].host]]
            /\ connections' = [connections EXCEPT ![caller[c].host] = FreeSession]
            /\ IF caller[c].op = "execute"
               THEN /\ caller' = [caller EXCEPT ![c] =
                                    InFlight("running", "execute", caller[c].host,
                                             FreeSession)]
                    /\ last' = last
               ELSE /\ caller' = [caller EXCEPT ![c] = IdleCaller]
                    /\ last' = Event("connect", caller[c].host, "ok",
                                     FreeSession, "created")
       ELSE /\ caller' = [caller EXCEPT ![c] = IdleCaller]
            /\ last' = Event(caller[c].op, caller[c].host,
                             IF outcome = "ssh_error" THEN "ConnectionError"
                             ELSE "OSError",
                             0, "connect_failed")
            /\ UNCHANGED <<sess, connections>>
    /\ UNCHANGED searchVars

RunOutcomes == {"ok", "timeout", "ssh_error"}

\* an execute_command that discards the host's record when the run fails
ExecDoneDropsRecord(c, outcome) ==
    /\ caller[c].pc = "running"
    /\ caller' = [caller EXCEPT ![c] = IdleCaller]
    /\ last' = Event("execute", caller[c].host,
                     CASE outcome = "ok" -> "ok"
                       [] outcome = "timeout" -> "TimeoutError"
                       [] OTHER -> "RuntimeError",
                     caller[c].conn, "ran")
    /\ connections' = IF outcome = "ok" THEN connections
                      ELSE [connections EXCEPT ![caller[c].host] = 0]
    /\ UNCHANGED <<sess, searchVars>>

\* execute_command after connect: conn.run under wait_for ends
ExecDone(c, outcome) ==
    /\ caller[c].pc = "running"
    /\ caller' = [caller EXCEPT ![c] = IdleCaller]
    /\ last' = Event("execute", caller[c].host,
                     CASE outcome = "ok" -> "ok"
                       [] outcome = "timeout" -> "TimeoutError"
                       [] OTHER -> "RuntimeError",
                     caller[c].conn, "ran")
    /\ UNCHANGED <<sess, connections, searchVars>>

\* how awaiting conn.close() ends: "raises" at once (asyncssh's close() is a
\* plain method that starts the close and returns None; awaiting None raises
\* TypeError), or "awaits" (an awaitable close that suspends)
CloseKinds == {"raises", "awaits"}

\* a close_connection whose del is inside the try: skipped when close raises
CloseCallDelInTry(c, h, how) ==
    /\ caller[c].pc = "idle"
    /\ IF connections[h] = 0
       THEN /\ caller' = caller
            /\ last' = Event("close", h, "ok", 0, "no_record")
            /\ UNCHANGED <<sess, connections>>
       ELSE /\ sess' = [sess EXCEPT ![connections[h]].state = "closing"]
            /\ connections' = connections
            /\ IF how = "raises"
               THEN /\ caller' = caller
                    /\ last' = Event("close", h, "ok", 0, "close_raised")
               ELSE /\ caller' = [caller EXCEPT ![c] = InFlight("closing", "close", h, 0)]
                    /\ last' = last
    /\ UNCHANGED searchVars

\* close_connection(server_name) up to its return or the await of close()
CloseCall(c, h, how) ==
    /\ caller[c].pc = "idle"
    /\ IF connections[h] = 0
       THEN /\ caller' = caller
            /\ last' = Event("close", h, "ok", 0, "no_record")
            /\ UNCHANGED <<sess, connections>>
       ELSE /\ sess' = [sess EXCEPT ![connections[h]].state = "closing"]
            /\ IF how = "raises"
               THEN /\ connections' = [connections EXCEPT ![h] = 0]
                    /\ caller' = caller
                    /\ last' = Event("close", h, "ok", 0, "close_raised")
               ELSE /\ connections' = connections
                    /\ caller' = [caller EXCEPT ![c] = InFlight("closing", "close", h, 0)]
                    /\ last' = last
    /\ UNCHANGED searchVars

\* close_connection after the await: the exception, if any, is passed over,
\* and the record is deleted (KeyError when it is gone by then)
CloseDone(c, raised) ==
    /\ caller[c].pc = "closing"
    /\ connections' = [connections EXCEPT ![caller[c].host] = 0]
    /\ caller' = [caller EXCEPT ![c] = IdleCaller]
    /\ last' = Event("close", caller[c].host,
                     IF connections[caller[c].host] = 0 THEN "KeyError" ELSE "ok",
                     0, IF raised THEN "close_raised" ELSE "closed")
    /\ UNCHANGED <<sess, searchVars>>

\* the remote end or the network ends a session
SessionFails(s, how) ==
    /\ sess[s].state = "live"
    /\ sess' = [sess EXCEPT ![s].state = how]
    /\ UNCHANGED <<connections, caller, last, searchVars>>

SSHOnly ==
    /\ file = [kind |-> "absent"]
    /\ config = None
    /\ phase = "start"
    /\ req = IdleReq
    /\ tasks = << >>
    /\ completed = << >>
    /\ resp = NoResp
    /\ closeall = NoCloseAll
    /\ now = 0
    /\ SSHInit

NextSSH ==
    \/ \E c \in Callers, h \in Hosts, op \in {"connect", "execute"} : ConnectCall(c, h, op)
    \/ \E c \in Callers, o \in ConnectOutcomes : ConnectDone(c, o)
    \/ \E c \in Callers, o \in RunOutcomes : ExecDone(c, o)
    \/ \E c \in Callers, h \in Hosts, how \in CloseKinds : CloseCall(c, h, how)
    \/ \E c \in Callers, raised \in BOOLEAN : CloseDone(c, raised)
    \/ \E s \in 1..MaxSessions, how \in {"closing", "broken"} : SessionFails(s, how)

SpecSSH == SSHOnly /\ [][NextSSH]_vars

\* the manager called by one coroutine at a time: a call begins only when no
\* other call is in flight
OneAtATime == Cardinality({c \in Callers : caller[c].pc # "idle"}) <= 1
NextSSHSeq ==
    \/ \E c \in Callers, h \in Hosts, op \in {"connect", "execute"} :
            ConnectCall(c, h, op) /\ OneAtATime'
    \/ \E c \in Callers, o \in ConnectOutcomes : ConnectDone(c, o) /\ OneAtATime'
    \/ \E c \in Callers, o \in RunOutcomes : ExecDone(c, o) /\ OneAtATime'
    \/ \E c \in Callers, h \in Hosts, how \in CloseKinds :
            CloseCall(c, h, how) /\ OneAtATime'
    \/ \E c \in Callers, raised \in BOOLEAN : CloseDone(c, raised) /\ OneAtATime'
    \/ \E s \in 1..MaxSessions, how \in {"closing", "broken"} : SessionFails(s, how)
SpecSSHSeq == SSHOnly /\ [][NextSSHSeq]_vars

----------------------------------------------------------------------------
(* server.py: main leaves server.run and runs close_all in its finally *)

\* a key list that misses the first key
CloseAllKeysButFirst(conns) ==
    {IF o = << >> THEN o ELSE Tail(o) : o \in Orders({h \in Hosts : conns[h] # 0})}

\* list(self._connections.keys()): the hosts with a record, in the order the
\* dict holds them, which is any order here
CloseAllKeys(conns) == Orders({h \in Hosts : conns[h] # 0})

ExitKinds == {"normal", "raise"}

\* server.run returns or raises while no call of the manager is in flight:
\* the finally clause calls close_all, which takes the list of keys
MainExit(kind) ==
    /\ phase = "serving"
    /\ \A c \in Callers : caller[c].pc = "idle"
    /\ phase' = "cleanup"
    /\ \E keys \in CloseAllKeys(connections) :
        closeall' = [pc |-> "iterating", keys |-> keys,
                     table |-> {connections[h] : h \in {g \in Hosts : connections[g] # 0}},
                     attempted |-> {}, calls |-> closeall.calls + 1, exit |-> kind]
    /\ UNCHANGED <<file, config, req, tasks, completed, resp, sshVars, now>>

\* close_all: close_connection for the next key, up to its return or the
\* await of close()
CloseAllStep(how) ==
    /\ closeall.pc = "iterating"
    /\ closeall.keys # << >>
    /\ LET h == Head(closeall.keys)
       IN  IF connections[h] = 0
           THEN /\ closeall' = [closeall EXCEPT !.keys = Tail(@)]
                /\ UNCHANGED <<sess, connections>>
           ELSE /\ sess' = [sess EXCEPT ![connections[h]].state = "closing"]
                /\ IF how = "raises"
                   THEN /\ connections' = [connections EXCEPT ![h] = 0]
                        /\ closeall' = [closeall EXCEPT
                                          !.keys = Tail(@),
                                          !.attempted = @ \cup {connections[h]}]
                   ELSE /\ connections' = connections
                        /\ closeall' = [closeall EXCEPT
                                          !.pc = "awaiting",
                                          !.attempted = @ \cup {connections[h]}]
    /\ UNCHANGED <<file, config, phase, req, tasks, completed, resp, caller, last, now>>

\* close_connection inside close_all after the await: the record is deleted
CloseAllResume(raised) ==
    /\ closeall.pc = "awaiting"
    /\ connections' = [connections EXCEPT ![Head(closeall.keys)] = 0]
    /\ closeall' = [closeall EXCEPT !.pc = "iterating", !.keys = Tail(@)]
    /\ UNCHANGED <<file, config, phase, req, tasks, completed, resp, sess, caller, last, now>>

\* close_all returns, and main ends
CloseAllReturn ==
    /\ closeall.pc = "iterating"
    /\ closeall.keys = << >>
    /\ closeall' = [closeall EXCEPT !.pc = "returned"]
    /\ phase' = "exited"
    /\ UNCHANGED <<file, config, req, tasks, completed, resp, sshVars, now>>

\* the server is up on the default configuration
ShutdownInit ==
    /\ file = LoadConfig(None, [kind |-> "absent"]).file
    /\ config = Some(DefaultConfig)
    /\ phase = "serving"
    /\ req = IdleReq
    /\ tasks = << >>
    /\ completed = << >>
    /\ resp = NoResp
    /\ closeall = NoCloseAll
    /\ now = 0
    /\ SSHInit

NextShutdown ==
    \/ \E c \in Callers, h \in Hosts, op \in {"connect", "execute"} :
            phase = "serving" /\ ConnectCall(c, h, op)
    \/ \E c \in Callers, o \in ConnectOutcomes : phase = "serving" /\ ConnectDone(c, o)
    \/ \E c \in Callers, o \in RunOutcomes : phase = "serving" /\ ExecDone(c, o)
    \/ \E c \in Callers, h \in Hosts, how \in CloseKinds :
            phase = "serving" /\ CloseCall(c, h, how)
    \/ \E c \in Callers, raised \in BOOLEAN : phase = "serving" /\ CloseDone(c, raised)
    \/ \E s \in 1..MaxSessions, how \in {"closing", "broken"} : SessionFails(s, how)
    \/ \E kind \in ExitKinds : MainExit(kind)
    \/ \E how \in CloseKinds : CloseAllStep(how)
    \/ \E raised \in BOOLEAN : CloseAllResume(raised)
    \/ CloseAllReturn

SpecShutdown == ShutdownInit /\ [][NextShutdown]_vars

----------------------------------------------------------------------------
(* config/manager.py: add_server, remove_server, update_server *)

\* add_server without the test for an existing name: the entry is replaced
AddServerOverwrite(c, f, server_config) ==
    LET g == GetConfig(c, f)
    IN  IF Raised(g.out) THEN g
        ELSE LET cur == g.out.value
                 k == IndexOf(cur.servers, server_config.name)
                 new == LogSearchConfig(
                            IF k = 0 THEN Append(cur.servers, server_config)
                            ELSE [cur.servers EXCEPT ![k] = server_config],
                            cur.default_timeout, cur.max_results)
             IN  [out |-> Return(None), config |-> Some(new),
                  file |-> SaveConfig(Some(new), g.file).file]

\* add_server
AddServer(c, f, server_config) ==
    LET g == GetConfig(c, f)
    IN  IF Raised(g.out) THEN g
        ELSE IF IndexOf(g.out.value.servers, server_config.name) # 0
        THEN [g EXCEPT !.out = Raise("ValueError",
                                     <<"Server '", server_config.name, "' already exists">>)]
        ELSE LET cur == g.out.value
                 new == LogSearchConfig(Append(cur.servers, server_config),
                                        cur.default_timeout, cur.max_results)
             IN  [out |-> Return(None), config |-> Some(new),
                  file |-> SaveConfig(Some(new), g.file).file]

\* remove_server
RemoveServer(c, f, server_name) ==
    LET g == GetConfig(c, f)
    IN  IF Raised(g.out) THEN g
        ELSE IF IndexOf(g.out.value.servers, server_name) = 0
        THEN [g EXCEPT !.out = Raise("ValueError",
                                     <<"Server '", server_name, "' not found">>)]
        ELSE LET cur == g.out.value
                 new == LogSearchConfig(
                            SelectSeq(cur.servers, LAMBDA e : e.name # server_name),
                            cur.default_timeout, cur.max_results)
             IN  [out |-> Return(None), config |-> Some(new),
                  file |-> SaveConfig(Some(new), g.file).file]

\* update_server: the entry keeps its place in the dict
UpdateServer(c, f, server_config) ==
    LET g == GetConfig(c, f)
    IN  IF Raised(g.out) THEN g
        ELSE IF IndexOf(g.out.value.servers, server_config.name) = 0
        THEN [g EXCEPT !.out = Raise("ValueError",
                                     <<"Server '", server_config.name, "' not found">>)]
        ELSE LET cur == g.out.value
                 new == LogSearchConfig(
                            [cur.servers EXCEPT
                                ![IndexOf(cur.servers, server_config.name)] = server_config],
                            cur.default_timeout, cur.max_results)
             IN  [out |-> Return(None), config |-> Some(new),
                  file |-> SaveConfig(Some(new), g.file).file]

----------------------------------------------------------------------------
(* server.py: read_resource *)

FieldOrder ==
    <<"name", "hostname", "port", "username", "private_key_path", "password",
      "app_name", "log_paths", "timeout">>

\* server_config.model_dump_json(indent=2): every declared field with its
\* value, in declaration order
ModelDumpJson(sc) == [i \in 1..Len(FieldOrder) |-> <<FieldOrder[i], sc[FieldOrder[i]]>>]

\* read_resource(uri), uri given as its first nine characters and the rest
ReadResource(c, f, uri) ==
    IF uri.scheme = "server://"
    THEN LET gs == GetServer(c, f, uri.rest)
         IN  IF Raised(gs.out)
             THEN IF gs.out.exc.type = "ValueError"
                  THEN [gs EXCEPT !.out = Raise("ValueError",
                                                <<"Server not found: ", uri.rest>>)]
                  ELSE gs
             ELSE [gs EXCEPT !.out = Return(ModelDumpJson(gs.out.value))]
    ELSE [out |-> Raise("ValueError", <<"Unknown resource: ", uri.scheme, uri.rest>>),
          config |-> c, file |-> f]

----------------------------------------------------------------------------
(* utils/ssh_manager.py and tools/log_search.py: the timeout of a command *)

\* timeout=timeout or server_config.timeout, given to asyncio.wait_for
WaitForTimeout(timeout, server_config) == OrElse(timeout, server_config.timeout)

\* conn.run under wait_for: a command that needs longer than the timeout
\* ends in TimeoutError
ExecuteCommandTimed(server_config, timeout, duration) ==
    IF duration > WaitForTimeout(timeout, server_config)
    THEN Raise("TimeoutError", <<"Command execution timed out on ", server_config.name>>)
    ELSE Return(<< >>)

\* the timeout search_logs and _filter_log_files_by_age pass
SearchTimeout(cfg) == Some(cfg.default_timeout)

----------------------------------------------------------------------------
(* The configuration manager and the resource handlers, call by call *)

HostTimeout == 10
RequestTimeout == 5
QuickRun == 1
SlowRun == 20

\* a second profile for host h: another password beside what the first
\* profile has, a log-path list, its own timeout, and a file_age_limit key
CustomData(h) ==
    [password |-> Some("other"), log_paths |-> Some(<< <<"/var/log/app.log">> >>),
     timeout |-> HostTimeout, file_age_limit |-> Some(FileAgeDays)]
    @@ ProfileData(h, None)

\* the ServerConfig objects handed to add_server and update_server
ApiProfiles ==
    {ServerConfigNew(h, ProfileData(h, None)).value : h \in Hosts}
    \cup {ServerConfigNew(h, CustomData(h)).value : h \in Hosts}

LookupNames == Hosts \cup {"ghost"}
Uris ==
    {[scheme |-> "server://", rest |-> n] : n \in LookupNames}
    \cup {[scheme |-> "file://", rest |-> "x"]}
Overrides == {None, Some(RequestTimeout)}
Durations == {QuickRun, SlowRun}

Call(op, name, arg, duration) ==
    [state |-> "done", kind |-> op, server_name |-> name, arg |-> arg,
     duration |-> duration]

cfgIdle == <<phase, tasks, completed, closeall, now, sshVars>>

\* ConfigManager(config_path): a fresh manager on the same path
NewManager ==
    /\ ~IsNone(config)
    /\ config' = None
    /\ req' = Call("new", "none", None, 0)
    /\ resp' = NoResp
    /\ UNCHANGED <<file, cfgIdle>>

\* load_config()
CfgLoad ==
    LET r == LoadConfig(config, file)
    IN  /\ req' = Call("load", "none", None, 0)
        /\ resp' = r.out
        /\ config' = r.config
        /\ file' = r.file
        /\ UNCHANGED cfgIdle

\* add_server(sc)
CfgAdd(sc) ==
    LET r == AddServer(config, file, sc)
    IN  /\ req' = Call("add", sc.name, Some(sc), 0)
        /\ resp' = r.out
        /\ config' = r.config
        /\ file' = r.file
        /\ UNCHANGED cfgIdle

\* remove_server(n)
CfgRemove(n) ==
    LET r == RemoveServer(config, file, n)
    IN  /\ req' = Call("remove", n, None, 0)
        /\ resp' = r.out
        /\ config' = r.config
        /\ file' = r.file
        /\ UNCHANGED cfgIdle

\* update_server(sc)
CfgUpdate(sc) ==
    LET r == UpdateServer(config, file, sc)
    IN  /\ req' = Call("update", sc.name, Some(sc), 0)
        /\ resp' = r.out
        /\ config' = r.config
        /\ file' = r.file
        /\ UNCHANGED cfgIdle

\* get_server(n)
CfgGet(n) ==
    LET r == GetServer(config, file, n)
    IN  /\ req' = Call("get", n, None, 0)
        /\ resp' = r.out
        /\ config' = r.config
        /\ file' = r.file
        /\ UNCHANGED cfgIdle

\* list_servers()
CfgList ==
    LET r == ListServers(config, file)
    IN  /\ req' = Call("list", "none", None, 0)
        /\ resp' = r.out
        /\ config' = r.config
        /\ file' = r.file
        /\ UNCHANGED cfgIdle

\* read_resource(uri)
CfgRead(uri) ==
    LET r == ReadResource(config, file, uri)
    IN  /\ req' = Call("read", uri.rest, Some(uri.scheme), 0)
        /\ resp' = r.out
        /\ config' = r.config
        /\ file' = r.file
        /\ UNCHANGED cfgIdle

\* execute_command(get_server(n), command, timeout) for a command that
\* needs `duration` seconds
CfgExecute(n, timeout, duration) ==
    LET gs == GetServer(config, file, n)
    IN  /\ Returned(gs.out)
        /\ req' = Call("execute", n, timeout, duration)
        /\ resp' = ExecuteCommandTimed(gs.out.value, timeout, duration)
        /\ config' = gs.config
        /\ file' = gs.file
        /\ UNCHANGED cfgIdle

\* the execute_command call of search_logs and of _filter_log_files_by_age:
\* the request carries no timeout, the call passes config.default_timeout
CfgSearchExecute(n, duration) ==
    LET gs == GetServer(config, file, n)
    IN  /\ Returned(gs.out)
        /\ req' = Call("search_execute", n, None, duration)
        /\ resp' = ExecuteCommandTimed(gs.out.value, SearchTimeout(gs.config[1]), duration)
        /\ config' = gs.config
        /\ file' = gs.file
        /\ UNCHANGED cfgIdle

NextConfig ==
    \/ NewManager
    \/ CfgLoad
    \/ CfgList
    \/ \E sc \in ApiProfiles : CfgAdd(sc)
    \/ \E sc \in ApiProfiles : CfgUpdate(sc)
    \/ \E n \in LookupNames : CfgRemove(n)
    \/ \E n \in LookupNames : CfgGet(n)
    \/ \E uri \in Uris : CfgRead(uri)
    \/ \E n \in Hosts, t \in Overrides, d \in Durations : CfgExecute(n, t, d)
    \/ \E n \in Hosts, d \in Durations : CfgSearchExecute(n, d)

SpecConfig == Init /\ [][NextConfig]_vars


----------------------------------------------------------------------------
(* config/manager.py when the write of save_config is refused: mkdir or   *)
(* open raises OSError and the file stays as it was                       *)

WriteRefused == Raise("OSError", <<"Permission denied: ", "log_search_config.toml">>)

\* get_config when its load has to write the default file and cannot:
\* _config was assigned at line 25, save_config raises at line 26
GetConfigWriteFails(c, f) ==
    IF IsNone(c) /\ f.kind = "absent"
    THEN [out |-> WriteRefused, config |-> Some(DefaultConfig), file |-> f]
    ELSE GetConfig(c, f)

\* add_server, remove_server or update_server when every write is refused;
\* r is the call as it goes when the write succeeds. The assignment to
\* self._config comes before save_config, and its raise undoes nothing
MutationWriteFails(r, g) ==
    IF Raised(g.out) THEN g
    ELSE IF Raised(r.out) THEN r
    ELSE [out |-> WriteRefused, config |-> r.config, file |-> g.file]

\* add_server(sc), the write refused
CfgAddWriteFails(sc) ==
    LET r == MutationWriteFails(AddServer(config, file, sc),
                                GetConfigWriteFails(config, file))
    IN  /\ r.out = WriteRefused
        /\ req' = Call("add", sc.name, Some(sc), 0)
        /\ resp' = r.out
        /\ config' = r.config
        /\ file' = r.file
        /\ UNCHANGED cfgIdle

\* remove_server(n), the write refused
CfgRemoveWriteFails(n) ==
    LET r == MutationWriteFails(RemoveServer(config, file, n),
                                GetConfigWriteFails(config, file))
    IN  /\ r.out = WriteRefused
        /\ req' = Call("remove", n, None, 0)
        /\ resp' = r.out
        /\ config' = r.config
        /\ file' = r.file
        /\ UNCHANGED cfgIdle

\* update_server(sc), the write refused
CfgUpdateWriteFails(sc) ==
    LET r == MutationWriteFails(UpdateServer(config, file, sc),
                                GetConfigWriteFails(config, file))
    IN  /\ r.out = WriteRefused
        /\ req' = Call("update", sc.name, Some(sc), 0)
        /\ resp' = r.out
        /\ config' = r.config
        /\ file' = r.file
        /\ UNCHANGED cfgIdle

\* the calls whose write is refused: those that name the web host
FaultProfiles == {sc \in ApiProfiles : sc.name = "web"}

NextConfigIO ==
    \/ NewManager
    \/ CfgLoad
    \/ CfgList
    \/ \E sc \in ApiProfiles : CfgAdd(sc)
    \/ \E sc \in ApiProfiles : CfgUpdate(sc)
    \/ \E n \in LookupNames : CfgRemove(n)
    \/ \E n \in LookupNames : CfgGet(n)
    \/ \E sc \in FaultProfiles : CfgAddWriteFails(sc)
    \/ \E sc \in FaultProfiles : CfgUpdateWriteFails(sc)
    \/ \E n \in {sc.name : sc \in FaultProfiles} : CfgRemoveWriteFails(n)

SpecConfigIO == Init /\ [][NextConfigIO]_vars

----------------------------------------------------------------------------
(* tools/log_search.py: a search from its call of the age filter on.      *)
(* _filter_log_files_by_age is called with every age limit, each remote   *)
(* command ends in every way, and the clock moves between the steps.      *)

MaxClock == 1
MaxFound == 1

\* the time_range arguments of a request
TimeRanges ==
    {None,
     Some(<<"1", "h">>), Some(<<"2", "m">>), Some(<<"1", "D">>),
     Some(<<"2024-01-01", " to ", "2024-01-02">>),
     Some(<<"yesterday", " to ", "2024-01-02">>),
     Some(<<"2024-01-01", " to ", "en", "d">>),
     Some(<<"yesterday">>)}
SearchCaps == {None, Some(1)}
AgeLimits == {None, Some(FileAgeDays)}
SearchedHosts == <<"web", "db">>
SearchTargets == {SearchedHosts, <<SearchedHosts[1]>>}

\* the lines of a host's log that match the pattern, with their time stamps
HostLog ==
    <<[text |-> "l1", ts |-> -86400], [text |-> "l2", ts |-> -3600],
      [text |-> "l3", ts |-> 0]>>

HasStage(cmd, name) == \E i \in 1..Len(cmd) : cmd[i].stage = name
StageArg(cmd, name) == cmd[CHOOSE i \in 1..Len(cmd) : cmd[i].stage = name].arg
\* the awk stage's test of one line
KeepLine(f, l) == l.ts >= f.from /\ (f.kind = "between" => l.ts <= f.to)
\* what the host prints for a command: grep, then awk, then head
RunPipeline(cmd, log) ==
    LET kept == IF HasStage(cmd, "awk")
                THEN SelectSeq(log, LAMBDA l : KeepLine(StageArg(cmd, "awk"), l))
                ELSE log
        cut == IF HasStage(cmd, "head")
               THEN SubSeq(kept, 1, Min(StageArg(cmd, "head"), Len(kept)))
               ELSE kept
    IN  [i \in 1..Len(cut) |-> cut[i].text]

\* what find prints for a path spec: the n files younger than the limit
FoundFiles(spec, n) == [k \in 1..n |-> spec \o <<".", LineTexts[k]>>]
\* how a remote command ends: it prints, or execute_command raises
EndKinds == {"ok", "timeout", "command_failure"}
FindEnv(spec, kind, n) ==
    [kind |-> kind, stdout |-> IF kind = "ok" THEN FoundFiles(spec, n) ELSE << >>]
RunEnv(cmd, kind) ==
    [kind |-> kind, stdout |-> IF kind = "ok" THEN RunPipeline(cmd, HostLog) ELSE << >>]

PendingTask(h) ==
    [host |-> h, state |-> "pending", finds |-> << >>, files |-> << >>,
     cmd |-> << >>, out |-> Return(<< >>)]

\* the profile and the cap search_logs works with, lines 135-148
SearchedConfig(h) == config[1].servers[IndexOf(config[1].servers, h)]
EffectiveCap == OrElse(req.max_results, config[1].max_results)

\* search_logs from the return of the age filter on, up to the await of
\* execute_command: the early return, the command built at the clock's
\* reading, or the error line of an exception of _build_grep_command
AfterFilter(t, filtered, clock) ==
    LET b == BuildGrepCommand(Pattern, filtered, req.time_range, Some(EffectiveCap), clock)
    IN  IF filtered = << >>
        THEN [t EXCEPT !.state = "done", !.out = Return(<<NoFilesLine(t.host)>>)]
        ELSE IF Raised(b)
        THEN [t EXCEPT !.state = "done", !.files = filtered,
                       !.out = Return(<<ErrorLine(t.host, b.exc)>>)]
        ELSE [t EXCEPT !.state = "running", !.files = filtered, !.cmd = b.value]

\* _filter_log_files_by_age after the finds so far: the original specs once
\* a find has raised, the files found once every spec was queried
FilterFound(log_files, finds) ==
    IF \E i \in 1..Len(finds) : Raised(finds[i]) THEN Return(log_files)
    ELSE IF Len(finds) = Len(log_files)
    THEN Return(Flatten([i \in 1..Len(finds) |-> finds[i].value]))
    ELSE Raise("pending", << >>)

\* search_all_logs, or search_logs for one host: a coroutine per host
SearchCall(names, time_range, max_results, age) ==
    /\ req.state = "idle"
    /\ req' = [state |-> "gathering", kind |-> IF Len(names) = 1 THEN "one" ELSE "all",
               server_names |-> names, time_range |-> time_range,
               max_results |-> max_results, age |-> age, at |-> now]
    /\ tasks' = [i \in 1..Len(names) |-> PendingTask(names[i])]
    /\ completed' = << >>
    /\ resp' = NoResp
    /\ UNCHANGED <<file, config, phase, closeall, now, sshVars>>

\* a coroutine runs from its start to its first await: the first find of
\* the age filter when a limit is given, else the pattern search
TaskStart(i) ==
    /\ req.state = "gathering"
    /\ i \in 1..Len(tasks)
    /\ tasks[i].state = "pending"
    /\ tasks' = [tasks EXCEPT ![i] =
                    IF req.age = None \/ req.age = <<0>>
                    THEN AfterFilter(tasks[i], LogFilesOf(SearchedConfig(tasks[i].host)), now)
                    ELSE [tasks[i] EXCEPT !.state = "finding"]]
    /\ completed' = IF tasks'[i].state = "done" THEN Append(completed, i) ELSE completed
    /\ UNCHANGED <<file, config, phase, req, resp, closeall, now, sshVars>>

\* the find of the next path spec ends: the loop goes on to the next spec,
\* or the filter returns and search_logs goes on to its next await
FindDone(i, kind, n) ==
    /\ req.state = "gathering"
    /\ i \in 1..Len(tasks)
    /\ tasks[i].state = "finding"
    /\ kind # "ok" => n = 0
    /\ LET sc == SearchedConfig(tasks[i].host)
           env == FindEnv(LogFilesOf(sc)[Len(tasks[i].finds) + 1], kind, n)
           finds == Append(tasks[i].finds,
                           IF Raised(ExecuteCommandResult(sc, env))
                           THEN ExecuteCommandResult(sc, env)
                           ELSE Return(NonBlank(env.stdout)))
           f == FilterFound(LogFilesOf(sc), finds)
       IN  tasks' = [tasks EXCEPT ![i] =
                        IF Raised(f) THEN [tasks[i] EXCEPT !.finds = finds]
                        ELSE AfterFilter([tasks[i] EXCEPT !.finds = finds], f.value, now)]
    /\ completed' = IF tasks'[i].state = "done" THEN Append(completed, i) ELSE completed
    /\ UNCHANGED <<file, config, phase, req, resp, closeall, now, sshVars>>

\* the pattern search ends: lines 166-182
RunDone(i, kind) ==
    /\ req.state = "gathering"
    /\ i \in 1..Len(tasks)
    /\ tasks[i].state = "running"
    /\ LET sc == SearchedConfig(tasks[i].host)
           env == RunEnv(tasks[i].cmd, kind)
           t == [out |-> SearchLogsOutput(tasks[i].host,
                                          ExecuteCommandResult(sc, env), EffectiveCap)]
       IN  tasks' = [tasks EXCEPT ![i] =
                        [tasks[i] EXCEPT !.state = "done",
                                         !.out = SearchLogsExcept(t, tasks[i].host).out]]
    /\ completed' = Append(completed, i)
    /\ UNCHANGED <<file, config, phase, req, resp, closeall, now, sshVars>>

\* a second passes
Tick ==
    /\ now < MaxClock
    /\ now' = now + 1
    /\ UNCHANGED <<file, config, phase, req, tasks, completed, resp, closeall, sshVars>>

\* every coroutine has settled: the lists are merged and call_tool answers
SearchJoin ==
    /\ req.state = "gathering"
    /\ \A i \in 1..Len(tasks) : tasks[i].state = "done"
    /\ resp' = ToolResult(MergeResults(req.server_names,
                                       [i \in 1..Len(tasks) |-> tasks[i].out]))
    /\ req' = [req EXCEPT !.state = "done"]
    /\ UNCHANGED <<file, config, phase, tasks, completed, closeall, now, sshVars>>

SearchInit ==
    /\ file = ValidFile(SearchedHosts, None, MaxLines)
    /\ config = LoadConfig(None, ValidFile(SearchedHosts, None, MaxLines)).config
    /\ phase = "serving"
    /\ req = IdleReq
    /\ tasks = << >>
    /\ completed = << >>
    /\ resp = NoResp
    /\ closeall = NoCloseAll
    /\ now = 0
    /\ SSHInit

NextSearch ==
    \/ \E names \in SearchTargets, tr \in TimeRanges, m \in SearchCaps, age \in AgeLimits :
            SearchCall(names, tr, m, age)
    \/ \E i \in 1..Len(SearchedHosts) : TaskStart(i)
    \/ \E i \in 1..Len(SearchedHosts), kind \in EndKinds, n \in 0..MaxFound :
            FindDone(i, kind, n)
    \/ \E i \in 1..Len(SearchedHosts), kind \in EndKinds : RunDone(i, kind)
    \/ Tick
    \/ SearchJoin
    \/ Respond

SpecSearch == SearchInit /\ [][NextSearch]_vars

----------------------------------------------------------------------------
(* Properties of the search orchestrator and the server *)

FailureKinds == {"connect_failure", "timeout", "command_failure"}
AllAnswered == req.kind = "all" /\ req.state = "done" /\ req.server_names # << >>
\* the lines of the answer that name host h
ContributionOf(h) == SelectSeq(resp.value.results, LAMBDA l : h \in Range(l))
IsErrorLine(l) == l[1] = "Error searching logs on " \/ l[3] = "] Error: "
\* the position of the host a result line names, in the configuration
PositionOf(l) ==
    IndexOf(config[1].servers, CHOOSE h \in Hosts : h \in Range(l))
Configured(h) == ~IsNone(config) /\ IndexOf(config[1].servers, h) # 0

\* C1: search_all_logs answers for every one of the N hosts: each host has a
\* contribution, it is all of what that host's search_logs gave, and a host
\* whose remote side fails contributes exactly one error line naming it.
C1_FailureIsolation ==
    AllAnswered =>
        /\ resp.kind = "return"
        /\ \A i \in 1..Len(req.server_names) :
            /\ ContributionOf(req.server_names[i]) # << >>
            /\ Returned(tasks[i].out) =>
                    ContributionOf(req.server_names[i]) = tasks[i].out.value
            /\ tasks[i].env.kind \in FailureKinds =>
                    /\ Len(ContributionOf(req.server_names[i])) = 1
                    /\ IsErrorLine(ContributionOf(req.server_names[i])[1])

C1_Witness ==
    /\ AllAnswered
    /\ resp.kind = "return"
    /\ \E i, j \in 1..Len(tasks) :
        /\ tasks[i].env.kind = "connect_failure"
        /\ tasks[j].env.kind = "ok"
        /\ Len(ContributionOf(tasks[i].host)) = 1
        /\ ContributionOf(tasks[j].host) # << >>

\* C2: whatever order the per-host tasks settle in, the answer lists the
\* hosts in the order list_servers enumerates them, which is the order of the
\* configuration's server table; each host's lines are contiguous and in the
\* order its search_logs returned them.
C2_ResultOrder ==
    AllAnswered =>
        /\ resp.kind = "return"
        /\ req.server_names = Keys(config[1].servers)
        /\ Keys(config[1].servers) = [i \in 1..Len(file.servers) |-> file.servers[i].name]
        /\ \A p, q \in 1..Len(resp.value.results) :
                p < q => PositionOf(resp.value.results[p]) <= PositionOf(resp.value.results[q])
        /\ \A i \in 1..Len(tasks) :
                Returned(tasks[i].out) => ContributionOf(tasks[i].host) = tasks[i].out.value

C2_Witness ==
    /\ AllAnswered
    /\ resp.kind = "return"
    /\ completed = <<2, 1>>
    /\ req.server_names = <<"web", "db">>
    /\ PositionOf(resp.value.results[1]) = 1
    /\ PositionOf(resp.value.results[2]) = 2

\* C3: search_logs on a configured host whose command prints k >= 1 non-blank
\* lines returns the first min(k, cap) of them, in order, each prefixed with
\* the host name (cap: the max_results argument, else the configured one).
C3_SuccessPath ==
    \A i \in 1..Len(tasks) :
        (/\ tasks[i].state = "done"
         /\ Configured(tasks[i].host)
         /\ tasks[i].env.kind = "ok"
         /\ NonBlank(tasks[i].env.stdout) # << >>)
        => tasks[i].out =
             Return([j \in 1..Min(Len(NonBlank(tasks[i].env.stdout)),
                                  OrElse(req.max_results, config[1].max_results)) |->
                        <<"[", tasks[i].host, "] ", NonBlank(tasks[i].env.stdout)[j]>>])

\* C4: search_logs never raises: it returns a list, and for an unknown host
\* or a host whose connect or command fails the list is one message naming
\* the host.
C4_NeverRaises ==
    \A i \in 1..Len(tasks) :
        tasks[i].state = "done" =>
            /\ Returned(tasks[i].out)
            /\ (~Configured(tasks[i].host) \/ tasks[i].env.kind \in FailureKinds) =>
                    /\ Len(tasks[i].out.value) = 1
                    /\ tasks[i].host \in Range(tasks[i].out.value[1])
            /\ req.kind = "one" => resp.kind = "return"

C4_Witness ==
    /\ req.kind = "one"
    /\ req.state = "done"
    /\ req.server_name = "ghost"
    /\ ~IsNone(config)
    /\ resp.kind = "return"
    /\ resp.value.results = <<<<"Error searching logs on ", "ghost", ": ",
                                "Server '", "ghost", "' not found">>>>

\* C5: a search_logs call for "all" always ends with a result list for the
\* protocol layer, never with an exception.
C5_AlwaysAnswers ==
    (req.kind = "all" /\ req.state = "done") => resp.kind = "return"

\* C6: after a startup load that failed on a malformed file the manager holds
\* an empty configuration, so list_servers returns the empty list.
C6_FallbackConfig ==
    (phase = "serving" /\ file.kind = "malformed") =>
        /\ config = Some(DefaultConfig)
        /\ ListServers(config, file).out = Return(<< >>)

\* C7: with no server configured, search_all_logs returns the one message
\* "No servers configured", makes no per-host search and opens no connection.
C7_NoServers ==
    (/\ req.kind = "all"
     /\ req.state # "idle"
     /\ ListServers(config, file).out = Return(<< >>))
    => /\ req.state = "done"
       /\ resp.kind = "return"
       /\ resp.value.results = <<NoServersLine>>
       /\ tasks = << >>
       /\ completed = << >>
       /\ \A h \in Hosts : connections[h] = 0

C7_Witness ==
    /\ req.kind = "all"
    /\ req.state = "done"
    /\ ~IsNone(config)
    /\ config[1].servers = << >>
    /\ resp.kind = "return"
    /\ resp.value.results = <<NoServersLine>>


----------------------------------------------------------------------------
(* Properties of the connection manager *)

LiveRecord(h) == connections[h] # 0 /\ sess[connections[h]].state = "live"
LiveSessions(h) == {s \in 1..MaxSessions : sess[s].host = h /\ sess[s].state = "live"}
Created(h) == Cardinality({s \in 1..MaxSessions : sess[s].host = h})
CreatedNext(h) == Cardinality({s \in 1..MaxSessions : sess'[s].host = h})

\* the reuse half of C8: a connect that finds a live record returns the stored
\* session and changes neither the table nor the sessions
C8_ReuseOnLiveRecord ==
    [][\A c \in Callers, h \in Hosts, op \in {"connect", "execute"} :
        (ConnectCall(c, h, op) /\ LiveRecord(h)) =>
            /\ connections' = connections
            /\ sess' = sess
            /\ caller'[c].pc # "connecting"
            /\ op = "connect" => (last'.ret = "ok" /\ last'.conn = connections[h])
            /\ op = "execute" => caller'[c].conn = connections[h]]_vars

\* C8: while the stored session of a host is live, every connect for that host
\* returns it and makes no new transport connect, and the number of sessions
\* created for a host grows only when the host has no live record.
C8_ConnectionReuse ==
    [][\A h \in Hosts :
        /\ \A c \in Callers, op \in {"connect", "execute"} :
            (ConnectCall(c, h, op) /\ LiveRecord(h)) =>
                /\ connections' = connections
                /\ sess' = sess
                /\ caller'[c].pc # "connecting"
                /\ op = "connect" => (last'.ret = "ok" /\ last'.conn = connections[h])
                /\ op = "execute" => caller'[c].conn = connections[h]
        /\ CreatedNext(h) > Created(h) => ~LiveRecord(h)]_vars

\* C9: a host never has two live sessions, and every live session is the one
\* the connection table holds for its host.
C9_OneLiveSession ==
    \A h \in Hosts :
        /\ Cardinality(LiveSessions(h)) <= 1
        /\ \A s \in LiveSessions(h) : connections[h] = s

\* C10: close_connection for a host without a record changes nothing and
\* returns; for a host with a record the record is gone when it returns, also
\* when close raised; a second call in sequence finds no record and changes
\* nothing; the records of the other hosts stay as they were.
C10_CloseIdempotent ==
    [][\A c \in Callers, h \in Hosts :
        /\ (caller[c].pc = "idle" /\ \E how \in CloseKinds : CloseCall(c, h, how)) =>
            /\ \A g \in Hosts \ {h} : connections'[g] = connections[g]
            /\ connections[h] = 0 =>
                /\ connections' = connections
                /\ sess' = sess
                /\ caller'[c].pc = "idle"
                /\ last'.ret = "ok"
            /\ (connections[h] # 0 /\ caller'[c].pc = "idle") =>
                /\ connections'[h] = 0
                /\ last'.ret = "ok"
        /\ (caller[c].pc = "closing" /\ caller[c].host = h
                /\ \E raised \in BOOLEAN : CloseDone(c, raised)) =>
            /\ \A g \in Hosts \ {h} : connections'[g] = connections[g]
            /\ connections'[h] = 0
            /\ connections[h] # 0 => last'.ret = "ok"]_vars

C10_Witness ==
    /\ last.op = "close"
    /\ last.via = "close_raised"
    /\ last.ret = "ok"
    /\ connections[last.host] = 0
    /\ \E s \in 1..MaxSessions : sess[s].host = last.host /\ sess[s].state = "closing"
    /\ \E g \in Hosts \ {last.host} : LiveRecord(g)


\* C11: when close_all has returned, the connection table is empty and a
\* close was attempted on every session the table held when it was called;
\* main calls close_all exactly once, on a normal exit and on a failing one.
C11_CloseAll ==
    /\ phase = "exited" =>
        /\ \A h \in Hosts : connections[h] = 0
        /\ closeall.table \subseteq closeall.attempted
        /\ \A s \in closeall.table : sess[s].state # "live"
    /\ phase \in {"cleanup", "exited"} <=> closeall.calls = 1
    /\ closeall.calls <= 1

C11_Witness ==
    /\ phase = "exited"
    /\ closeall.exit = "raise"
    /\ Cardinality(closeall.table) >= 2
    /\ closeall.attempted = closeall.table
    /\ \A h \in Hosts : connections[h] = 0


----------------------------------------------------------------------------
(* Properties of the command timeout *)

\* the profile the last call named
CalledProfile == config[1].servers[IndexOf(config[1].servers, req.server_name)]
\* the timeout a request is to run under: its own override when it has one,
\* else the timeout of the host profile (which every profile has)
RequestedTimeout == IF req.arg # None THEN req.arg[1] ELSE CalledProfile.timeout

\* the execute_command half of C12: a direct call is bounded by its timeout
\* argument, else by the profile's timeout
C12_DirectCall ==
    req.kind = "execute" => (Raised(resp) <=> req.duration > RequestedTimeout)

\* C12: a remote command is bounded by the request's override when there is
\* one, otherwise by the host profile's timeout, and by the global
\* default_timeout only when neither is set: it times out exactly when it
\* needs longer than that.
C12_TimeoutPrecedence ==
    req.kind \in {"execute", "search_execute"} =>
        (Raised(resp) <=> req.duration > RequestedTimeout)


----------------------------------------------------------------------------
(* Properties of the join in search_all_logs *)

TimeoutLine(h) ==
    <<"Error searching logs on ", h, ": ", "Command execution timed out on ", h>>

\* the join half of C13: an answer exists only when every task has settled
C13_JoinAll ==
    (req.kind = "all" /\ req.server_names # << >> /\ resp # NoResp) =>
        /\ \A i \in 1..Len(tasks) : tasks[i].state = "done"
        /\ Len(tasks) = Len(req.server_names)
        /\ Len(completed) = Len(tasks)

\* the termination half of C13: a gather that has started ends with an answer
C13_Terminates == (req.state = "gathering") ~> (req.state = "done" /\ resp # NoResp)

\* the sibling half of C13: a task that has settled, with a timeout or
\* otherwise, leaves every other task pending or settled with its own result
C13_SiblingsRun ==
    [][\A i \in 1..Len(tasks) :
        (\E env \in RemoteOutcomes : SearchLogsTask(i, env)) =>
            \A j \in 1..Len(tasks) \ {i} : tasks'[j] = tasks[j]]_vars

\* C13: search_all_logs returns only after every per-host task has settled,
\* and a configured host whose command times out contributes the timeout
\* outcome for that host.
C13_JoinAllWithTimeouts ==
    /\ (req.kind = "all" /\ req.server_names # << >> /\ resp # NoResp) =>
            \A i \in 1..Len(tasks) : tasks[i].state = "done"
    /\ \A i \in 1..Len(tasks) :
            (/\ req.kind = "all"
             /\ tasks[i].state = "done"
             /\ Configured(tasks[i].host)
             /\ tasks[i].env.kind = "timeout")
            => tasks[i].out = Return(<<TimeoutLine(tasks[i].host)>>)


----------------------------------------------------------------------------
(* Properties of the configuration manager *)

\* the configuration a call works on: get_config in the state before it
Current == GetConfig(config, file)
Known(n) == Returned(Current.out) /\ IndexOf(Current.out.value.servers, n) # 0
Unknown(n) == Returned(Current.out) /\ IndexOf(Current.out.value.servers, n) = 0
\* a step that is a mutation or lookup the manager rejects for its name
RejectedCall ==
    \/ \E sc \in ApiProfiles : CfgAdd(sc) /\ Known(sc.name)
    \/ \E sc \in ApiProfiles : CfgUpdate(sc) /\ Unknown(sc.name)
    \/ \E n \in LookupNames : CfgRemove(n) /\ Unknown(n)
    \/ \E n \in LookupNames : CfgGet(n) /\ Unknown(n)
NamesUnique ==
    /\ ~IsNone(config) =>
        \A i, j \in 1..Len(config[1].servers) :
            config[1].servers[i].name = config[1].servers[j].name => i = j
    /\ file.kind = "valid" =>
        \A i, j \in 1..Len(file.servers) :
            file.servers[i].name = file.servers[j].name => i = j

\* C14 as stated: a rejected add_server, remove_server, update_server or
\* get_server raises ValueError and leaves the in-memory configuration and
\* the persisted file exactly as they were; names stay unique.
C14_RejectedChangesNothing ==
    [][/\ RejectedCall =>
            /\ resp'.kind = "raise"
            /\ resp'.exc.type = "ValueError"
            /\ config' = config
            /\ file' = file
       /\ NamesUnique']_vars

\* C14 amended: a rejected call raises ValueError and changes nothing when
\* the configuration was loaded; on a manager that had not loaded yet the
\* only change is that of the load get_config makes (the configuration is
\* read, and a missing file is created with the defaults); names stay unique.
C14_RejectedOnlyLoads ==
    [][/\ RejectedCall =>
            /\ resp'.kind = "raise"
            /\ resp'.exc.type = "ValueError"
            /\ config' = Current.config
            /\ file' = Current.file
            /\ ~IsNone(config) => (config' = config /\ file' = file)
       /\ NamesUnique']_vars

C14_Witness ==
    /\ req.kind = "add"
    /\ resp = Raise("ValueError", <<"Server '", "web", "' already exists">>)
    /\ ~IsNone(config)
    /\ Len(config[1].servers) >= 2
    /\ NamesUnique


Mutations == {"add", "remove", "update"}
\* what a fresh ConfigManager on the same path loads
FreshLoad == LoadConfig(None, file)

C16_LoadOrCreateDefault ==
    [][(CfgLoad /\ file.kind = "absent") =>
            /\ resp'.kind = "return"
            /\ resp'.value.servers = << >>
            /\ resp'.value.default_timeout = 30
            /\ resp'.value.max_results = 100
            /\ config' = Some(resp'.value)
            /\ file'.kind = "valid"
            /\ LoadConfig(config', file').out = resp'
            /\ LoadConfig(None, file').out = resp'
            /\ LoadConfig(config', file').file = file']_vars

C16_Witness ==
    /\ req.kind = "load"
    /\ resp = Return(DefaultConfig)
    /\ config = Some(DefaultConfig)
    /\ file = SaveConfig(Some(DefaultConfig), [kind |-> "absent"]).file
    /\ file.kind = "valid"
    /\ FreshLoad.out = resp


----------------------------------------------------------------------------
(* Properties of the resource handlers and of the profiles *)

SecretFields == {"password", "private_key_path"}
Secrets == {None, Some("secret"), Some("other"), Some("id_rsa")}

\* C17: the text read_resource returns for a configured host carries no
\* value of a secret field, and it is the same text whatever the host's
\* password or private-key reference is.
C17_NoSecretsInResource ==
    (req.kind = "read" /\ Returned(resp)) =>
        /\ \A i \in 1..Len(resp.value) :
                resp.value[i][1] \in SecretFields => resp.value[i][2] = None
        /\ \A pw \in Secrets, key \in Secrets :
                ModelDumpJson([CalledProfile EXCEPT !.password = pw,
                                                    !.private_key_path = key])
                    = resp.value


ExactlyOneCredential(sc) == IsNone(sc.private_key_path) # IsNone(sc.password)

\* C18: every profile of the configuration, and every ServerConfig that was
\* constructed and handed to add_server or update_server, has exactly one of
\* private_key_path and password set.
C18_ExactlyOneCredential ==
    /\ ~IsNone(config) =>
        \A i \in 1..Len(config[1].servers) : ExactlyOneCredential(config[1].servers[i])
    /\ req.kind \in {"add", "update"} => ExactlyOneCredential(req.arg[1])


----------------------------------------------------------------------------
(* Properties of connect *)

\* a step in which caller c's connect for host h raises
ConnectRaises(c, h) ==
    \/ /\ caller[c].pc = "connecting"
       /\ caller[c].host = h
       /\ \E o \in ConnectOutcomes \ {"ok"} : ConnectDone(c, o)
    \/ /\ ~HasCredential(ServerOf(h))
       /\ \E op \in {"connect", "execute"} : ConnectCall(c, h, op)

\* C19: when connect raises for a host, the table has no entry for that host
\* afterwards, also when a record that is no longer live was there before
\* the attempt, and the entries of the other hosts are unchanged.
C19_FailedConnectLeavesNoRecord ==
    [][\A c \in Callers, h \in Hosts :
        ConnectRaises(c, h) =>
            /\ connections'[h] = 0
            /\ \A g \in Hosts \ {h} : connections'[g] = connections[g]]_vars


\* the session a connect call that returns in this step gives caller c
ReturnedSession(c) == IF caller'[c].pc = "running" THEN caller'[c].conn ELSE last'.conn
\* the call caller c makes in this step returns a session in this step
ConnectReturns(c) ==
    caller'[c].pc = "running" \/ (caller'[c].pc = "idle" /\ last'.ret = "ok")
DeadRecord(h) == connections[h] # 0 /\ sess[connections[h]].state # "live"
\* every record is a session made for its host
TableWellFormed ==
    \A h \in Hosts : connections[h] # 0 => sess[connections[h]].host = h

\* C20: the session connect returns is live, whether it is the stored one or
\* a new one; a record whose session is closing, or whose liveness check
\* raises, is never returned: connect goes on to create a session, and when
\* that succeeds the new session is stored under the host name in place of
\* the dead one and returned; the table holds one record per host name.
C20_DeadSessionReplaced ==
    [][/\ \A c \in Callers, h \in Hosts :
            /\ \A op \in {"connect", "execute"} :
                (/\ caller[c].pc = "idle"
                 /\ caller'[c].host = h \/ last'.host = h
                 /\ ConnectCall(c, h, op)) =>
                    /\ DeadRecord(h) =>
                            \/ caller'[c].pc = "connecting"
                            \/ caller'[c].pc = "idle" /\ last'.ret = "ValueError"
                    /\ ConnectReturns(c) =>
                            /\ ReturnedSession(c) = connections[h]
                            /\ sess'[ReturnedSession(c)].state = "live"
                            /\ sess'[ReturnedSession(c)].host = h
            /\ (caller[c].pc = "connecting" /\ caller[c].host = h /\ ConnectDone(c, "ok")) =>
                    /\ sess[ReturnedSession(c)].state = "unused"
                    /\ sess'[ReturnedSession(c)] = [state |-> "live", host |-> h]
                    /\ connections'[h] = ReturnedSession(c)
                    /\ \A g \in Hosts \ {h} : connections'[g] = connections[g]
       /\ TableWellFormed']_vars

C20_Witness ==
    /\ last.op = "connect"
    /\ last.via = "created"
    /\ last.ret = "ok"
    /\ connections[last.host] = last.conn
    /\ sess[last.conn] = [state |-> "live", host |-> last.host]
    /\ \E s \in 1..MaxSessions \ {last.conn} :
        sess[s].host = last.host /\ sess[s].state = "closing"
    /\ \A c \in Callers : caller[c].pc = "idle"

----------------------------------------------------------------------------
(* C21 *)

RunFailures == {"timeout", "ssh_error"}
RunErrors == {"TimeoutError", "RuntimeError"}

\* C21: when the command of an execute_command times out or fails on the
\* remote side, the call raises and the connection table and the sessions
\* are as they were before: the record of the host is the same session. A
\* connect for that host made next, while that record is in the table and
\* its liveness check passes, returns that same session without creating one.
C21_FailedRunKeepsRecord ==
    [][\A c \in Callers :
        /\ \A o \in RunFailures :
            (caller[c].pc = "running" /\ ExecDone(c, o)) =>
                /\ last'.ret \in RunErrors
                /\ last'.conn = caller[c].conn
                /\ connections' = connections
                /\ sess' = sess
        /\ \A h \in Hosts :
            (/\ caller[c].pc = "idle"
             /\ last.op = "execute" /\ last.ret \in RunErrors /\ last.host = h
             /\ connections[h] = last.conn
             /\ sess[last.conn].state = "live"
             /\ ConnectCall(c, h, "connect")) =>
                /\ last'.ret = "ok"
                /\ last'.via = "reused"
                /\ last'.conn = last.conn
                /\ connections' = connections]_vars

\* a command has timed out on a session that is still the host's record and
\* still live
C21_Witness ==
    /\ last.op = "execute"
    /\ last.ret = "TimeoutError"
    /\ last.conn # 0
    /\ connections[last.host] = last.conn
    /\ sess[last.conn].state = "live"
    /\ \A c \in Callers : caller[c].pc = "idle"

----------------------------------------------------------------------------
(* Properties of the command a search sends *)

\* the request carries a relative time range
RelativeRange ==
    /\ req.time_range # None
    /\ \E u \in {"h", "m", "d"} : EndsWith(Strip(LowerStr(req.time_range[1])), u)
\* the command coroutine i has built carries a time filter
Filtered(i) == tasks[i].cmd # << >> /\ HasStage(tasks[i].cmd, "awk")

\* C22: in a search over all hosts with a relative time range, the cutoff is
\* the one computed from the clock's reading when the request was made, and
\* the commands built for the hosts all carry that same cutoff, in whatever
\* order the coroutines run and however long their awaits take.
C22_OneTimeWindow ==
    (req.state # "idle" /\ req.kind = "all" /\ RelativeRange) =>
        \A i \in 1..Len(tasks) :
            Filtered(i) =>
                /\ StageArg(tasks[i].cmd, "awk")
                        = ParseTimeRange(req.time_range[1], req.at).value[1]
                /\ \A j \in 1..Len(tasks) :
                        Filtered(j) =>
                            StageArg(tasks[j].cmd, "awk") = StageArg(tasks[i].cmd, "awk")

----------------------------------------------------------------------------
(* Properties of the age filter *)

\* the request runs the age filter
AgeLimited == req.state # "idle" /\ req.age # None /\ req.age # <<0>>
\* coroutine i is past its call of the age filter
PastFilter(i) == tasks[i].state \in {"running", "done"}
\* the files of the specs whose find succeeded, in the order of the specs
FilesOfSucceeded(finds) ==
    Flatten([k \in 1..Len(finds) |-> IF Raised(finds[k]) THEN << >> ELSE finds[k].value])

\* C23: with an age limit set, every path spec is queried; a spec whose
\* query fails contributes no file, and the resolved list is the files of
\* the specs whose query succeeded, in the order of the specs: files already
\* found are kept and the original specs are not put back.
C23_PerSpecIsolation ==
    AgeLimited =>
        \A i \in 1..Len(tasks) :
            PastFilter(i) =>
                /\ Len(tasks[i].finds) = Len(LogFilesOf(SearchedConfig(tasks[i].host)))
                /\ tasks[i].files = FilesOfSucceeded(tasks[i].finds)

\* the isolation that does hold: when every query succeeds the resolved list
\* is the files found, in the order of the specs
C23_AllSucceeded ==
    AgeLimited =>
        \A i \in 1..Len(tasks) :
            (PastFilter(i) /\ \A k \in 1..Len(tasks[i].finds) : Returned(tasks[i].finds[k])) =>
                /\ Len(tasks[i].finds) = Len(LogFilesOf(SearchedConfig(tasks[i].host)))
                /\ tasks[i].files = FilesOfSucceeded(tasks[i].finds)

\* the persisted profile of host h sets an age limit
AgeLimitInFile(h) ==
    /\ file.kind = "valid"
    /\ \E k \in 1..Len(file.servers) :
        file.servers[k].name = h /\ "file_age_limit" \in DOMAIN file.servers[k].data

\* the short circuit of lines 153-155, from the return of the age filter on:
\* an empty resolved list ends the search with the no-files line, and no
\* pattern search is built or run
C24_ShortCircuit ==
    AgeLimited =>
        \A i \in 1..Len(tasks) :
            (/\ Len(tasks[i].finds) = Len(LogFilesOf(SearchedConfig(tasks[i].host)))
             /\ \A k \in 1..Len(tasks[i].finds) : tasks[i].finds[k] = Return(<< >>))
            => /\ tasks[i].state = "done"
               /\ tasks[i].cmd = << >>
               /\ tasks[i].out = Return(<<NoFilesLine(tasks[i].host)>>)

\* C24: for a configured host with an age limit whose listing finds no file
\* young enough, search_logs returns the one line "No log files found
\* matching the age filter on <host>" (and runs no pattern search).
C24_EmptyListOutcome ==
    \A i \in 1..Len(tasks) :
        (/\ tasks[i].state = "done"
         /\ Configured(tasks[i].host)
         /\ AgeLimitInFile(tasks[i].host)
         /\ tasks[i].env = [kind |-> "ok", stdout |-> << >>])
        => tasks[i].out = Return(<<NoFilesLine(tasks[i].host)>>)

----------------------------------------------------------------------------
(* Properties of the time range *)

\* the request's time range as _parse_time_range sees it
RangeText == Strip(LowerStr(req.time_range[1]))
\* the range has the form "<a> to <b>" and an endpoint is not an ISO 8601
\* time stamp
MalformedAbsolute ==
    /\ req.state # "idle"
    /\ req.time_range # None
    /\ HasTo(RangeText)
    /\ \/ Raised(FromIsoFormat(Strip(BeforeTo(RangeText))))
       \/ Raised(FromIsoFormat(Strip(AfterTo(RangeText))))
EndsInUnit == \E u \in {"h", "m", "d"} : EndsWith(RangeText, u)
AllMatches == [k \in 1..Len(HostLog) |-> HostLog[k].text]
\* the search of coroutine i ran with no time filter: its command has no awk
\* stage, and when it has ended its result is the matches of the host, cut
\* to the cap, or the error line of a remote command that failed
RanUnfiltered(i) ==
    /\ tasks[i].cmd # << >>
    /\ ~HasStage(tasks[i].cmd, "awk")
    /\ tasks[i].state = "done" =>
        \/ tasks[i].out = Return(FormatResults(tasks[i].host, AllMatches, EffectiveCap))
        \/ \E k \in EndKinds \ {"ok"} :
            tasks[i].out = SearchLogsExcept(
                [out |-> ExecuteCommandResult(SearchedConfig(tasks[i].host),
                                              [kind |-> k, stdout |-> << >>])],
                tasks[i].host).out

\* the fallback that does hold: a malformed absolute range that does not end
\* in h, m or d gives no filter, and the search runs unfiltered
C25_FallbackUnlessUnitSuffix ==
    (MalformedAbsolute /\ ~EndsInUnit) =>
        /\ ParseTimeRange(req.time_range[1], now) = Return(None)
        /\ \A i \in 1..Len(tasks) :
            (PastFilter(i) /\ tasks[i].files # << >>) => RanUnfiltered(i)

\* C25: for a time range of the form "<a> to <b>" with an endpoint that is
\* not an ISO 8601 time stamp, _parse_time_range returns no filter and does
\* not raise; the search runs on the host with a command that has no time
\* filter stage, and returns the matches, cut to the cap, not an error.
C25_LenientFallback ==
    MalformedAbsolute =>
        /\ ParseTimeRange(req.time_range[1], now) = Return(None)
        /\ \A i \in 1..Len(tasks) :
            (PastFilter(i) /\ tasks[i].files # << >>) => RanUnfiltered(i)

----------------------------------------------------------------------------
(* Properties of the configuration store *)

\* the persisted file encodes the configuration in memory: it is what
\* save_config writes for it, and a fresh manager loads that configuration
FileEncodesConfig ==
    /\ file = SaveConfig(config, file).file
    /\ Returned(FreshLoad.out)
    /\ FreshLoad.config = config
\* the configuration in memory is the one the file holds
InSync == Returned(FreshLoad.out) /\ FreshLoad.config = config

\* the half of C26 that holds, refused writes included: a mutation that
\* returns leaves the file encoding the configuration in memory
C26_ReturnedInSync == (req.kind \in Mutations /\ Returned(resp)) => FileEncodesConfig

\* C26: after an add_server, update_server or remove_server that returns,
\* the file encodes the configuration in memory; and when the write fails
\* inside such a call the configuration in memory is not ahead of the file:
\* whenever a configuration is loaded it is the one the file holds.
C26_WriteThrough ==
    /\ (req.kind \in Mutations /\ Returned(resp)) => FileEncodesConfig
    /\ ~IsNone(config) => InSync

----------------------------------------------------------------------------
(* Properties of the result lists *)

Sentinel == <<"No results found">>
\* every coroutine that has settled returned a list with an element in it
TasksNeverEmpty ==
    \A i \in 1..Len(tasks) :
        tasks[i].state = "done" =>
            /\ Returned(tasks[i].out)
            /\ tasks[i].out.value # << >>
\* the answer to a search has an element for every host searched, one at
\* least, and is not the sentinel
AnswerNeverEmpty ==
    (req.state = "done" /\ req.kind \in {"one", "all"} /\ Returned(resp)) =>
        /\ resp.value.results # << >>
        /\ resp.value.text # Sentinel
        /\ Len(resp.value.results) >= Len(req.server_names)
        /\ \A i \in 1..Len(req.server_names) :
            \E k \in 1..Len(resp.value.results) :
                req.server_names[i] \in Range(resp.value.results[k])

\* the same from the return of the age filter on, where the cap is 1 or the
\* configured one: the no-files line, the no-results line, the matches cut
\* to the cap and the error line are each a list of one element at least
C27_SearchNeverEmpty == TasksNeverEmpty /\ AnswerNeverEmpty

\* C27: with an effective cap of 1 or more, search_logs returns a list with
\* at least one element for every host name and every outcome, and
\* search_all_logs returns at least one element per configured host, and one
\* when no host is configured; so the answer of call_tool is never the "No
\* results found" sentinel, and no coroutine of the gather ends with an
\* exception for the merge loop to format.
C27_NeverEmpty ==
    /\ ~IsNone(config) => config[1].max_results >= 1
    /\ TasksNeverEmpty
    /\ AnswerNeverEmpty

\* a search over two configured hosts has been answered, a line for each
C27_Witness ==
    /\ req.state = "done"
    /\ req.kind = "all"
    /\ req.server_names = <<"web", "db">>
    /\ Returned(resp)
    /\ Len(resp.value.results) = 2
    /\ \A i \in 1..2 : tasks[i].out.value # << >>


====
